---- MODULE Spec2Model ----
(***************************************************************************)
(* Hangman game server (sharkwhistle/hangman): the datastore entities of   *)
(* models.py (User, Game, Score) and the request handlers of api.py.       *)
(*                                                                         *)
(* Python strings are sequences of one-character strings, so that          *)
(* concatenation, slicing, `in` and isalpha() are computed as the code     *)
(* computes them.  The datastore is three maps from keys to entities.      *)
(*                                                                         *)
(* Two specifications share the state and the entity-level operators:      *)
(*   Spec      every request handler runs to completion as one step        *)
(*             (serialized requests);                                      *)
(*   SpecConc  each datastore call (get, put, delete) of make_move,        *)
(*             end_game and cancel_game is a step of a request process,    *)
(*             so that requests interleave as App Engine instances do:     *)
(*             the handlers open no transaction and take no lock.          *)
(***************************************************************************)
EXTENDS Integers, Sequences, FiniteSets, TLC

VARIABLES
    users,      \* datastore, kind User: key -> entity, for the keys that exist
    games,      \* datastore, kind Game: key -> entity, for the keys that exist
    scores,     \* datastore, kind Score: sequence of entities in put order
    allocated,  \* number of Game keys the datastore has handed out
    request,    \* Spec: the request handled by the last step
    response,   \* Spec: what that handler returned or raised
    pc,         \* SpecConc: position of each request process in its handler
    local,      \* SpecConc: local variables of each request process
    overlaps,   \* SpecConc: requests begun while another one was in progress
    memcache,   \* memcache, key MOVES_REMAINING: the cached message, or None
    taskqueue   \* tasks /tasks/cache_average_attempts added and not yet run

vars ==
    <<users, games, scores, allocated, request, response, pc, local, overlaps,
      memcache, taskqueue>>

None == "None"

----------------------------------------------------------------------------
(* Bounds of the model *)

\* User keys the datastore hands out (number of successful create_user calls).
MaxUsers == 2

\* Attempts left in a game when the run of pad letters may stop (see Pad).
LastAttempts == 1

\* SpecConc: no request starts an end_game once this many games are counted
\* (Score entities, or total_games of the owner).
MaxScores == 2

\* SpecConc: how many requests may begin while another request is in progress.
MaxOverlaps == 1

\* Game keys the datastore hands out, in this order.  One game: a handler
\* reads and writes no Game but the one its request names.
GameKeys == {1}

UserNames == {"ann", "bob"}
Emails == {"ann@x.org"}

\* Request processes of SpecConc.
Procs == {"p1", "p2"}

\* Guesses a request may carry: letters of both cases, a digit, the empty
\* string and a string of two letters.
Guesses ==
    { <<"c">>, <<"a">>, <<"t">>, <<"s">>, <<"C">>,
      <<>>, <<"1">>, <<"c", "a">> }

\* Thirteen letters that occur in no word of the word bank.  To reach a loss
\* a game needs thirteen misses; these are guessed in this order and only
\* while nothing else has been guessed in the game.
Pad == <<"e", "f", "h", "j", "k", "l", "m", "p", "q", "v", "w", "x", "y">>

----------------------------------------------------------------------------
(* Python string primitives *)

LowerCase ==
    {"a", "b", "c", "d", "e", "f", "g", "h", "i", "j", "k", "l", "m",
     "n", "o", "p", "q", "r", "s", "t", "u", "v", "w", "x", "y", "z"}

UpperCase == {"C"}

\* str.isalpha(): true iff the string is non-empty and every character is a
\* letter.
isalpha(s) == Len(s) > 0 /\ \A i \in 1..Len(s) : s[i] \in LowerCase \cup UpperCase

\* `sub in s` on strings: substring containment (the empty string is in
\* every string), comparing characters exactly.
StrIn(sub, s) ==
    \E i \in 0..(Len(s) - Len(sub)) : SubSeq(s, i + 1, i + Len(sub)) = sub

\* "_" * n
Blank(n) == [i \in 1..n |-> "_"]

----------------------------------------------------------------------------
(* models.py: entities *)

\* Game.attempts_allowed / attempts_remaining default
DefaultAttempts == 13

\* words of Game.new_game
words ==
    << <<"c", "a", "t">>,
       <<"d", "o", "g">>,
       <<"b", "a", "t">>,
       <<"d", "o", "s", "a">>,
       <<"d", "i", "n", "o", "s", "a", "u", "r">>,
       <<"b", "i", "s", "c", "u", "i", "t", "s">> >>

\* User(name=..., email=...): wins and total_games default to 0
NewUser(name, email) ==
    [name |-> name, email |-> email, wins |-> 0, total_games |-> 0]

\* User.win_percentage as the pair (numerator, denominator) of the float
\* wins/total_games; 0 is (0, 1).
win_percentage(u) ==
    IF u.total_games > 0 THEN <<u.wins, u.total_games>> ELSE <<0, 1>>

\* User.add_win: the entity that is put
add_win(u) == [u EXCEPT !.total_games = @ + 1, !.wins = @ + 1]

\* add_loss that counts the game on wins instead of total_games
add_loss_CountsWin(u) == [u EXCEPT !.wins = @ + 1]

\* User.add_loss: the entity that is put
add_loss(u) == [u EXCEPT !.total_games = @ + 1]

\* Game.new_game: the entity built for target_word
NewGameEntity(user, target_word) ==
    [ user               |-> user,
      target             |-> target_word,
      guessed_word       |-> Blank(Len(target_word)),
      letters_guessed    |-> <<>>,
      correct_letters    |-> <<>>,
      attempts_allowed   |-> DefaultAttempts,
      attempts_remaining |-> DefaultAttempts,
      game_over          |-> FALSE,
      history            |-> <<>> ]

\* Game.end_game, first statement
MarkOver(g) == [g EXCEPT !.game_over = TRUE]

\* NewScore with guesses taken as the number of guesses made
NewScore_CountsAllGuesses(key, g, won) ==
    [ user    |-> g.user,
      won     |-> won,
      guesses |-> Len(g.history),
      game    |-> key ]

\* Game.end_game: the Score entity.  The entity has no reference to its game;
\* `game` is an auxiliary field recording which game's end_game put it.  The
\* date is left out: no handler reads it.
NewScore(key, g, won) ==
    [ user    |-> g.user,
      won     |-> won,
      guesses |-> g.attempts_allowed - g.attempts_remaining,
      game    |-> key ]

----------------------------------------------------------------------------
(* api.py: make_move, the part that works on the entity read by the handler *)

\* RevealAt with the slice after the revealed letter taken from i, not i + 1
RevealAt_SliceFromI(gw, target, letters, i) ==
    IF StrIn(<<target[i + 1]>>, letters)
    THEN SubSeq(gw, 1, i) \o <<target[i + 1]>> \o SubSeq(gw, i + 1, Len(gw))
    ELSE gw

\* One pass of the reveal loop at 0-based index i:
\*   guessed_word[:i] + target[i] + guessed_word[i + 1:]
RevealAt(gw, target, letters, i) ==
    IF StrIn(<<target[i + 1]>>, letters)
    THEN SubSeq(gw, 1, i) \o <<target[i + 1]>> \o SubSeq(gw, i + 2, Len(gw))
    ELSE gw

\* for i in range(len(game.target)): ...  from index i on
RECURSIVE RevealLoop(_, _, _, _)
RevealLoop(gw, target, letters, i) ==
    IF i >= Len(target) THEN gw
    ELSE RevealLoop(RevealAt(gw, target, letters, i), target, letters, i + 1)

\* MoveError with the guess validated before game_over is looked at
MoveError_GuessFirst(g, guess) ==
    IF isalpha(guess) = FALSE THEN "Guess must be a leter!"
    ELSE IF Len(guess) > 1 THEN "One at a time!"
    ELSE IF g.game_over THEN "Game already over!"
    ELSE IF StrIn(guess, g.letters_guessed) THEN "Letter already guessed!"
    ELSE None

\* MoveError without the length check
MoveError_NoLength(g, guess) ==
    IF g.game_over THEN "Game already over!"
    ELSE IF isalpha(guess) = FALSE THEN "Guess must be a leter!"
    ELSE IF StrIn(guess, g.letters_guessed) THEN "Letter already guessed!"
    ELSE None

\* The checks at the head of make_move, in the order of the code: the message
\* of the ConflictException raised, or None when the guess is accepted.
MoveError(g, guess) ==
    IF g.game_over THEN "Game already over!"
    ELSE IF isalpha(guess) = FALSE THEN "Guess must be a leter!"
    ELSE IF Len(guess) > 1 THEN "One at a time!"
    ELSE IF StrIn(guess, g.letters_guessed) THEN "Letter already guessed!"
    ELSE None

\* ApplyGuess with history.append left out of the miss branch
ApplyGuess_NoHistoryOnMiss(g, guess) ==
    IF StrIn(guess, g.target)
    THEN [g EXCEPT !.letters_guessed = @ \o guess,
                   !.correct_letters = @ \o guess,
                   !.history = Append(@, guess)]
    ELSE [g EXCEPT !.letters_guessed = @ \o guess,
                   !.attempts_remaining = @ - 1]

\* ApplyGuess with the missed letter appended to correct_letters as well
ApplyGuess_CorrectOnMiss(g, guess) ==
    IF StrIn(guess, g.target)
    THEN [g EXCEPT !.letters_guessed = @ \o guess,
                   !.correct_letters = @ \o guess,
                   !.history = Append(@, guess)]
    ELSE [g EXCEPT !.letters_guessed = @ \o guess,
                   !.correct_letters = @ \o guess,
                   !.attempts_remaining = @ - 1,
                   !.history = Append(@, guess)]

\* The two branches on `request.guess in game.target`
ApplyGuess(g, guess) ==
    IF StrIn(guess, g.target)
    THEN [g EXCEPT !.letters_guessed = @ \o guess,
                   !.correct_letters = @ \o guess,
                   !.history = Append(@, guess)]
    ELSE [g EXCEPT !.letters_guessed = @ \o guess,
                   !.attempts_remaining = @ - 1,
                   !.history = Append(@, guess)]

HitMessage(g, guess) ==
    IF StrIn(guess, g.target)
    THEN "That letter is in the target word!"
    ELSE "That letter is not in the target word!"

\* The entity after the branches and the reveal loop
Moved(g, guess) ==
    LET h == ApplyGuess(g, guess)
    IN  [h EXCEPT !.guessed_word = RevealLoop(@, h.target, h.letters_guessed, 0)]

\* Outcome with the loss test attempts_remaining < 0
Outcome_LossBelowZero(h) ==
    IF h.guessed_word = h.target THEN "won"
    ELSE IF h.attempts_remaining < 0 THEN "lost"
    ELSE "open"

\* Outcome with the win test on correct_letters instead of guessed_word
Outcome_CorrectLetters(h) ==
    IF h.correct_letters = h.target THEN "won"
    ELSE IF h.attempts_remaining < 1 THEN "lost"
    ELSE "open"

\* Outcome without the loss test
Outcome_NoLossTest(h) ==
    IF h.guessed_word = h.target THEN "won"
    ELSE "open"

\* What make_move does with the moved entity: "won" and "lost" call end_game,
\* "open" puts the game.
Outcome(h) ==
    IF h.guessed_word = h.target THEN "won"
    ELSE IF h.attempts_remaining < 1 THEN "lost"
    ELSE "open"

\* The message of the GameForm returned
MoveMessage(g, guess) ==
    LET o == Outcome(Moved(g, guess))
    IN  IF o = "won" THEN "You guessed the correct word!"
        ELSE IF o = "lost" THEN "Game over!"
        ELSE HitMessage(g, guess)

----------------------------------------------------------------------------
(* Datastore and responses *)

\* An entity or Python's None, as a sequence of at most one element
Nothing == <<>>
Some(e) == <<e>>

\* utils.get_by_urlsafe(urlsafe_game_key, Game): the entity, or None when the
\* key names no entity
get_by_urlsafe(key) ==
    IF key \in DOMAIN games THEN Some(games[key]) ELSE Nothing

\* User.query(User.name == name).get(): the first match in key order, or None
UserByName(name) ==
    LET found == {k \in DOMAIN users : users[k].name = name}
    IN  IF found = {} THEN Nothing
        ELSE Some(CHOOSE k \in found : \A j \in found : k <= j)

\* entity.put() of an entity with the given key
Put(store, key, e) == [k \in DOMAIN store \cup {key} |-> IF k = key THEN e ELSE store[k]]

\* key.delete()
Delete(store, key) == [k \in DOMAIN store \ {key} |-> store[k]]

\* A returned message or a raised exception
Ok(message) == [status |-> "OK", message |-> message]
ConflictException(message) == [status |-> "Conflict", message |-> message]
NotFoundException(message) == [status |-> "NotFound", message |-> message]
\* game is None and the handler reads game.game_over
AttributeError == [status |-> "AttributeError", message |-> "NoneType"]

NoRequest == [op |-> "none"]
NoLocal == [op |-> "none"]

Init ==
    /\ users = <<>>
    /\ games = <<>>
    /\ scores = <<>>
    /\ allocated = 0
    /\ request = NoRequest
    /\ response = Ok("")
    /\ pc = [p \in Procs |-> "idle"]
    /\ local = [p \in Procs |-> NoLocal]
    /\ overlaps = 0
    /\ memcache = None
    /\ taskqueue = 0

----------------------------------------------------------------------------
(* Spec: each handler of api.py as one step *)

\* HangmanApi.create_user
CreateUser(user_name, email) ==
    /\ request' = [op |-> "create_user", user_name |-> user_name, email |-> email]
    /\ IF UserByName(user_name) # Nothing
       THEN /\ response' = ConflictException("A User with that name already exists!")
            /\ UNCHANGED users
       ELSE /\ Cardinality(DOMAIN users) < MaxUsers
            /\ users' = Put(users, Cardinality(DOMAIN users) + 1, NewUser(user_name, email))
            /\ response' = Ok("User created!")
    /\ UNCHANGED <<games, scores, allocated, pc, local, overlaps, memcache, taskqueue>>

\* HangmanApi.new_game with Game.new_game; random.choice(words) is any word.
\* The datastore hands out the keys of `keys`.
NewGameWithin(keys, user_name) ==
    /\ request' = [op |-> "new_game", user_name |-> user_name]
    /\ LET user == UserByName(user_name)
       IN  IF user = Nothing
           THEN /\ response' = NotFoundException("A User with that name does not exist!")
                /\ UNCHANGED <<games, allocated, taskqueue>>
           ELSE /\ allocated + 1 \in keys
                /\ \E w \in 1..Len(words) :
                       games' = Put(games, allocated + 1, NewGameEntity(user[1], words[w]))
                /\ allocated' = allocated + 1
                /\ taskqueue' = taskqueue + 1
                /\ response' = Ok("Good luck playing Hangman!")
    /\ UNCHANGED <<users, scores, pc, local, overlaps, memcache>>

\* new_game in Spec and SpecConc: the one game of GameKeys
NewGame(user_name) == NewGameWithin(GameKeys, user_name)

\* Game.end_game(won) on the entity g of key `key`: the three puts
EndGame(key, g, won) ==
    /\ games' = Put(games, key, MarkOver(g))
    /\ users' = Put(users, g.user,
                    IF won = TRUE THEN add_win(users[g.user]) ELSE add_loss(users[g.user]))
    /\ scores' = Append(scores, NewScore(key, MarkOver(g), won))

\* The guesses a make_move request for `key` may carry: the next pad letter
\* while only pad letters have been guessed, and the guesses of Guesses; a
\* game that has started on the pad letters is run down by them, with no other
\* letter accepted in between, until LastAttempts attempts remain.
GuessesFor(key) ==
    IF key \notin DOMAIN games THEN Guesses
    ELSE LET g == games[key]
             n == Len(g.letters_guessed)
             onPad == n <= Len(Pad) /\ g.letters_guessed = SubSeq(Pad, 1, n)
         IN  (IF onPad /\ n < Len(Pad) THEN {<<Pad[n + 1]>>} ELSE {})
             \cup
             (IF onPad /\ n > 0 /\ g.attempts_remaining > LastAttempts
              THEN {s \in Guesses : isalpha(s) = FALSE \/ Len(s) > 1}
              ELSE Guesses)

\* HangmanApi.make_move
MakeMove(key, guess) ==
    /\ request' = [op |-> "make_move", key |-> key, guess |-> guess]
    /\ LET game == get_by_urlsafe(key)
       IN  IF game = Nothing
           THEN /\ response' = AttributeError
                /\ UNCHANGED <<users, games, scores>>
           ELSE LET g == game[1]
                    h == Moved(g, guess)
                IN  IF MoveError(g, guess) # None
                    THEN /\ response' = ConflictException(MoveError(g, guess))
                         /\ UNCHANGED <<users, games, scores>>
                    ELSE /\ response' = Ok(MoveMessage(g, guess))
                         /\ IF Outcome(h) = "won" THEN EndGame(key, h, TRUE)
                            ELSE IF Outcome(h) = "lost" THEN EndGame(key, h, FALSE)
                            ELSE /\ games' = Put(games, key, h)
                                 /\ UNCHANGED <<users, scores>>
    /\ UNCHANGED <<allocated, pc, local, overlaps, memcache, taskqueue>>

\* CancelBranch without the game_over test
CancelBranch_NoOverCheck(game) ==
    IF game # Nothing THEN "delete"
    ELSE "not found"

\* HangmanApi.cancel_game: the branch taken for what get_by_urlsafe returned
CancelBranch(game) ==
    IF game # Nothing /\ ~game[1].game_over THEN "delete"
    ELSE IF game # Nothing /\ game[1].game_over THEN "over"
    ELSE "not found"

\* HangmanApi.cancel_game
CancelGame(key) ==
    /\ request' = [op |-> "cancel_game", key |-> key]
    /\ LET branch == CancelBranch(get_by_urlsafe(key))
       IN  IF branch = "delete"
           THEN /\ games' = Delete(games, key)
                /\ response' = Ok("Game canceled!")
           ELSE IF branch = "over"
           THEN /\ response' = ConflictException("Game already over!")
                /\ UNCHANGED games
           ELSE /\ response' = NotFoundException("No active game found!")
                /\ UNCHANGED games
    /\ UNCHANGED <<users, scores, allocated, pc, local, overlaps, memcache, taskqueue>>

Next ==
    \/ \E n \in UserNames, e \in Emails : CreateUser(n, e)
    \/ \E n \in UserNames : NewGame(n)
    \/ \E k \in GameKeys : \E guess \in GuessesFor(k) : MakeMove(k, guess)
    \/ \E k \in GameKeys : CancelGame(k)

Spec == Init /\ [][Next]_vars

----------------------------------------------------------------------------
(* SpecConc: the handlers that write a Game, one datastore call per step.   *)
(* What a handler computes between two datastore calls touches only its     *)
(* local entity, so it is part of the step of the call before it.           *)

Idle(p) == pc[p] = "idle"

Goto(p, label) == pc' = [pc EXCEPT ![p] = label]

\* Process p begins a request that goes on to write
Begin(p) ==
    IF \A q \in Procs : Idle(q)
    THEN UNCHANGED overlaps
    ELSE overlaps < MaxOverlaps /\ overlaps' = overlaps + 1

\* make_move: get_by_urlsafe, the checks, the branches and the reveal loop on
\* the local entity.  A request that raises ends here.
MoveGet(p, key, guess) ==
    /\ Idle(p)
    /\ LET game == get_by_urlsafe(key)
       IN  IF game = Nothing \/ (game # Nothing /\ MoveError(game[1], guess) # None)
           THEN UNCHANGED <<pc, local, overlaps>>
           ELSE LET h == Moved(game[1], guess)
                IN  /\ Begin(p)
                    /\ local' = [local EXCEPT ![p] =
                            [op |-> "make_move", key |-> key, game |-> h,
                             won |-> (Outcome(h) = "won")]]
                    /\ IF Outcome(h) = "open"
                       THEN Goto(p, "move_put")
                       ELSE /\ Len(scores) < MaxScores
                            /\ users[h.user].total_games < MaxScores
                            /\ Goto(p, "end_game_put")
    /\ UNCHANGED <<users, games, scores, allocated, request, response, memcache, taskqueue>>

\* make_move: game.put() of a game still in progress
MovePut(p) ==
    /\ pc[p] = "move_put"
    /\ games' = Put(games, local[p].key, local[p].game)
    /\ Goto(p, "idle")
    /\ local' = [local EXCEPT ![p] = NoLocal]
    /\ UNCHANGED <<users, scores, allocated, request, response, overlaps, memcache, taskqueue>>

\* end_game: self.game_over = True; self.put()
EndGamePut(p) ==
    /\ pc[p] = "end_game_put"
    /\ games' = Put(games, local[p].key, MarkOver(local[p].game))
    /\ local' = [local EXCEPT ![p].game = MarkOver(@)]
    /\ Goto(p, "end_game_user_get")
    /\ UNCHANGED <<users, scores, allocated, request, response, overlaps, memcache, taskqueue>>

\* end_game: self.user.get()
EndGameUserGet(p) ==
    /\ pc[p] = "end_game_user_get"
    /\ local' = [local EXCEPT ![p] =
            [op |-> @.op, key |-> @.key, game |-> @.game, won |-> @.won,
             user |-> users[@.game.user]]]
    /\ Goto(p, "end_game_user_put")
    /\ UNCHANGED <<users, games, scores, allocated, request, response, overlaps, memcache, taskqueue>>

\* end_game: add_win() or add_loss() on the entity read, with its put()
EndGameUserPut(p) ==
    /\ pc[p] = "end_game_user_put"
    /\ users' = Put(users, local[p].game.user,
                    IF local[p].won = TRUE THEN add_win(local[p].user)
                    ELSE add_loss(local[p].user))
    /\ Goto(p, "end_game_score_put")
    /\ UNCHANGED <<games, scores, allocated, request, response, local, overlaps, memcache, taskqueue>>

\* end_game: score.put(); the handler returns
EndGameScorePut(p) ==
    /\ pc[p] = "end_game_score_put"
    /\ scores' = Append(scores, NewScore(local[p].key, local[p].game, local[p].won))
    /\ Goto(p, "idle")
    /\ local' = [local EXCEPT ![p] = NoLocal]
    /\ UNCHANGED <<users, games, allocated, request, response, overlaps, memcache, taskqueue>>

\* cancel_game: get_by_urlsafe and the branch on game_over
CancelGet(p, key) ==
    /\ Idle(p)
    /\ LET branch == CancelBranch(get_by_urlsafe(key))
       IN  IF branch = "delete"
           THEN /\ Begin(p)
                /\ local' = [local EXCEPT ![p] = [op |-> "cancel_game", key |-> key]]
                /\ Goto(p, "cancel_delete")
           ELSE UNCHANGED <<pc, local, overlaps>>
    /\ UNCHANGED <<users, games, scores, allocated, request, response, memcache, taskqueue>>

\* cancel_game: game.key.delete()
CancelDelete(p) ==
    /\ pc[p] = "cancel_delete"
    /\ games' = Delete(games, local[p].key)
    /\ Goto(p, "idle")
    /\ local' = [local EXCEPT ![p] = NoLocal]
    /\ UNCHANGED <<users, scores, allocated, request, response, overlaps, memcache, taskqueue>>

\* The datastore call a request is about to make raises (timeout, internal
\* error); no handler catches it, so the request ends with what it has
\* written so far.
DatastoreError(p) ==
    /\ ~Idle(p)
    /\ Goto(p, "idle")
    /\ local' = [local EXCEPT ![p] = NoLocal]
    /\ UNCHANGED <<users, games, scores, allocated, request, response, overlaps, memcache, taskqueue>>

NextConc ==
    \/ \E n \in UserNames, e \in Emails : allocated = 0 /\ CreateUser(n, e)
    \/ \E n \in UserNames : NewGame(n)
    \/ \E p \in Procs, k \in GameKeys, guess \in Guesses : MoveGet(p, k, guess)
    \/ \E p \in Procs : MovePut(p)
    \/ \E p \in Procs : EndGamePut(p)
    \/ \E p \in Procs : EndGameUserGet(p)
    \/ \E p \in Procs : EndGameUserPut(p)
    \/ \E p \in Procs : EndGameScorePut(p)
    \/ \E p \in Procs, k \in GameKeys : CancelGet(p, k)
    \/ \E p \in Procs : CancelDelete(p)
    \/ \E p \in Procs : DatastoreError(p)

SpecConc == Init /\ [][NextConc]_vars

----------------------------------------------------------------------------
(* SpecSignup: create_user requests of two processes, one datastore call per
   step *)

\* create_user: User.query(User.name == request.user_name).get() and the
\* test; a request for a name that is found ends here with the exception.
CreateUserQuery(p, user_name, email) ==
    /\ Idle(p)
    /\ IF UserByName(user_name) # Nothing
       THEN /\ request' = [op |-> "create_user", user_name |-> user_name, email |-> email]
            /\ response' = ConflictException("A User with that name already exists!")
            /\ UNCHANGED <<pc, local, overlaps>>
       ELSE /\ Begin(p)
            /\ local' = [local EXCEPT ![p] =
                    [op |-> "create_user", user_name |-> user_name, email |-> email]]
            /\ Goto(p, "create_user_put")
            /\ UNCHANGED <<request, response>>
    /\ UNCHANGED <<users, games, scores, allocated, memcache, taskqueue>>

\* create_user: user.put() under a new key, and the message returned
CreateUserPut(p) ==
    /\ pc[p] = "create_user_put"
    /\ Cardinality(DOMAIN users) < MaxUsers
    /\ users' = Put(users, Cardinality(DOMAIN users) + 1,
                    NewUser(local[p].user_name, local[p].email))
    /\ request' = [op |-> "create_user", user_name |-> local[p].user_name,
                   email |-> local[p].email]
    /\ response' = Ok("User created!")
    /\ Goto(p, "idle")
    /\ local' = [local EXCEPT ![p] = NoLocal]
    /\ UNCHANGED <<games, scores, allocated, overlaps, memcache, taskqueue>>

\* Addresses of the create_user requests: two, so that two requests for one
\* name can be told apart by the entity each puts.
SignupEmails == {"ann@x.org", "ann@y.org"}

NextSignup ==
    \/ \E p \in Procs, n \in UserNames, e \in SignupEmails : CreateUserQuery(p, n, e)
    \/ \E p \in Procs : CreateUserPut(p)
    \/ \E p \in Procs : DatastoreError(p)

SpecSignup == Init /\ [][NextSignup]_vars

----------------------------------------------------------------------------
(* SpecLedger: users, finished games and the two leaderboards.  A game is
   created and played to its end in one step, by the handlers of Spec. *)

\* Games created in SpecLedger.
MaxPlays == 3

\* The games played: a target of the word bank with the guesses that end it
\* (a win without a miss, a win with one miss, a loss by the pad letters).
Plays ==
    { [target |-> words[1], guesses |-> << <<"c">>, <<"a">>, <<"t">> >>],
      [target |-> words[1], guesses |-> << <<"s">>, <<"c">>, <<"a">>, <<"t">> >>],
      [target |-> words[2], guesses |-> [i \in 1..Len(Pad) |-> <<Pad[i]>>]] }

\* make_move accepts each of the guesses on g and leaves the game in progress
RECURSIVE Accepted(_, _)
Accepted(g, guesses) ==
    IF guesses = <<>> THEN TRUE
    ELSE /\ MoveError(g, Head(guesses)) = None
         /\ Outcome(Moved(g, Head(guesses))) = "open"
         /\ Accepted(Moved(g, Head(guesses)), Tail(guesses))

\* The entity stored after the make_move requests for the guesses, in order
RECURSIVE PlayMoves(_, _)
PlayMoves(g, guesses) ==
    IF guesses = <<>> THEN g
    ELSE PlayMoves(Moved(g, Head(guesses)), Tail(guesses))

\* new_game for user_name and the make_move requests of the play, the last of
\* which calls end_game; request and response are those of the last one.
PlayedGame(user_name, play) ==
    /\ UserByName(user_name) # Nothing
    /\ allocated < MaxPlays
    /\ LET key == allocated + 1
           n == Len(play.guesses)
           new == NewGameEntity(UserByName(user_name)[1], play.target)
           g == PlayMoves(new, SubSeq(play.guesses, 1, n - 1))
           guess == play.guesses[n]
           h == Moved(g, guess)
       IN  /\ Accepted(new, SubSeq(play.guesses, 1, n - 1))
           /\ MoveError(g, guess) = None
           /\ Outcome(h) # "open"
           /\ request' = [op |-> "make_move", key |-> key, guess |-> guess]
           /\ response' = Ok(MoveMessage(g, guess))
           /\ EndGame(key, h, Outcome(h) = "won")
    /\ allocated' = allocated + 1
    /\ taskqueue' = taskqueue + 1
    /\ UNCHANGED <<pc, local, overlaps, memcache>>

\* a >= b for two values of win_percentage
PctGeq(a, b) == a[1] * b[2] >= b[1] * a[2]

\* User.to_form
UserForm(u) ==
    [ name           |-> u.name,
      email          |-> u.email,
      wins           |-> u.wins,
      total_games    |-> u.total_games,
      win_percentage |-> win_percentage(u) ]

\* Keys in the order of the index a query with the filter total_games > 0
\* scans: by total_games, then by key
RECURSIVE InIndexOrder(_)
InIndexOrder(keys) ==
    IF keys = {} THEN <<>>
    ELSE LET k == CHOOSE k \in keys : \A j \in keys :
                      \/ users[k].total_games < users[j].total_games
                      \/ users[k].total_games = users[j].total_games /\ k <= j
         IN  <<k>> \o InIndexOrder(keys \ {k})

\* User.query(User.total_games > 0).fetch()
FetchUsersWithGames ==
    LET keys == InIndexOrder({k \in DOMAIN users : users[k].total_games > 0})
    IN  [i \in 1..Len(keys) |-> users[keys[i]]]

\* InsertDescending that puts u before the entities of equal win_percentage
InsertDescending_BeforeEqual(list, u) ==
    LET n == Cardinality({i \in 1..Len(list) :
                 ~PctGeq(win_percentage(u), win_percentage(list[i]))})
    IN  SubSeq(list, 1, n) \o <<u>> \o SubSeq(list, n + 1, Len(list))

\* u put into a list sorted by win_percentage descending, after the entities
\* of greater or equal win_percentage
InsertDescending(list, u) ==
    LET n == Cardinality({i \in 1..Len(list) :
                 PctGeq(win_percentage(list[i]), win_percentage(u))})
    IN  SubSeq(list, 1, n) \o <<u>> \o SubSeq(list, n + 1, Len(list))

\* sorted(users, key=lambda x: x.win_percentage, reverse=True): a stable sort,
\* entities of equal key keep the order they have in the list
RECURSIVE SortedByWinPercentage(_)
SortedByWinPercentage(list) ==
    IF list = <<>> THEN <<>>
    ELSE InsertDescending(SortedByWinPercentage(SubSeq(list, 1, Len(list) - 1)),
                          list[Len(list)])

\* HangmanApi.get_user_rankings
GetUserRankings ==
    /\ request' = [op |-> "get_user_rankings"]
    /\ LET ranked == SortedByWinPercentage(FetchUsersWithGames)
       IN  response' = [status |-> "OK",
                        items |-> [i \in 1..Len(ranked) |-> UserForm(ranked[i])]]
    /\ UNCHANGED <<users, games, scores, allocated, pc, local, overlaps,
                   memcache, taskqueue>>

\* Score.score: the class Score has no attribute score
ScoreAttributeError == [status |-> "AttributeError", message |-> "score"]

\* number_of_results of a get_high_scores request: not given, or a number
Limits == {Nothing, Some(1), Some(2)}

\* HangmanApi.get_high_scores: both branches evaluate Score.score first
GetHighScores(number_of_results) ==
    /\ request' = [op |-> "get_high_scores", number_of_results |-> number_of_results]
    /\ IF number_of_results # Nothing
       THEN response' = ScoreAttributeError
       ELSE response' = ScoreAttributeError
    /\ UNCHANGED <<users, games, scores, allocated, pc, local, overlaps,
                   memcache, taskqueue>>

NextLedger ==
    \/ \E n \in UserNames, e \in Emails : CreateUser(n, e)
    \/ \E n \in UserNames, play \in Plays : PlayedGame(n, play)
    \/ GetUserRankings
    \/ \E n \in Limits : GetHighScores(n)

SpecLedger == Init /\ [][NextLedger]_vars

----------------------------------------------------------------------------
(* SpecCache: the cached average of attempts_remaining.  The handlers of
   Spec on several games, the task new_game adds to the queue, and
   get_average_attempts. *)

\* Games created in SpecCache.
MaxCacheGames == 2

CacheKeys == 1..MaxCacheGames
CacheNames == {"ann"}

\* The letters guessed in SpecCache, in this order in every game: a miss,
\* then the letters of "cat".
CacheLetters == <<"e", "c", "a", "t">>

CacheGuessesFor(key) ==
    IF key \in DOMAIN games /\ Len(games[key].letters_guessed) < Len(CacheLetters)
    THEN {<<CacheLetters[Len(games[key].letters_guessed) + 1]>>}
    ELSE {}

\* Game.query(Game.game_over == False).fetch(), as keys
OpenGames == {k \in DOMAIN games : games[k].game_over = FALSE}

\* sum([game.attempts_remaining for game in games])
RECURSIVE SumAttempts(_)
SumAttempts(keys) ==
    IF keys = {} THEN 0
    ELSE LET k == CHOOSE k \in keys : TRUE
         IN  games[k].attempts_remaining + SumAttempts(keys \ {k})

\* A number of hundredths written with two decimals
TwoDecimals(h) ==
    ToString(h \div 100) \o "." \o ToString((h % 100) \div 10) \o ToString(h % 10)

\* '{:.2f}'.format(float(total)/count) for total >= 0: the quotient rounded to
\* the nearest hundredth.  A quotient half-way between two hundredths needs
\* count to be a multiple of 8; it is rounded to the even one, as the format
\* does for a float that is exact.
FormatAverage(total, count) ==
    LET q == (100 * total) \div count
        r == (100 * total) % count
    IN  TwoDecimals(IF 2 * r > count \/ (2 * r = count /\ q % 2 = 1)
                    THEN q + 1 ELSE q)

\* HangmanApi._cache_average_attempts, run by the task
\* /tasks/cache_average_attempts
CacheAverageAttempts ==
    /\ taskqueue > 0
    /\ taskqueue' = taskqueue - 1
    /\ request' = [op |-> "cache_average_attempts"]
    /\ response' = Ok("")
    /\ IF OpenGames # {}
       THEN memcache' = "The average moves remaining is "
                            \o FormatAverage(SumAttempts(OpenGames), Cardinality(OpenGames))
       ELSE UNCHANGED memcache
    /\ UNCHANGED <<users, games, scores, allocated, pc, local, overlaps>>

\* HangmanApi.get_average_attempts: memcache.get(MEMCACHE_MOVES_REMAINING) or ''
GetAverageAttempts ==
    /\ request' = [op |-> "get_average_attempts"]
    /\ response' = Ok(IF memcache = None \/ memcache = "" THEN "" ELSE memcache)
    /\ UNCHANGED <<users, games, scores, allocated, pc, local, overlaps,
                   memcache, taskqueue>>

NextCache ==
    \/ \E n \in CacheNames, e \in Emails : CreateUser(n, e)
    \/ \E n \in CacheNames : NewGameWithin(CacheKeys, n)
    \/ \E k \in CacheKeys : \E guess \in CacheGuessesFor(k) : MakeMove(k, guess)
    \/ \E k \in CacheKeys : CancelGame(k)
    \/ CacheAverageAttempts
    \/ GetAverageAttempts

SpecCache == Init /\ [][NextCache]_vars

----------------------------------------------------------------------------
(* Vocabulary of the properties *)

\* The characters of a string
Chars(s) == {s[i] : i \in 1..Len(s)}

\* A guess that is exactly one alphabetic character
SingleLetter(s) == Len(s) = 1 /\ s[1] \in LowerCase \cup UpperCase

\* The error kinds, as the exceptions the handlers raise
GameOver == ConflictException("Game already over!")
InvalidGuess ==
    {ConflictException("Guess must be a leter!"), ConflictException("One at a time!")}
DuplicateGuess == ConflictException("Letter already guessed!")
NotFound == NotFoundException("No active game found!")

\* The step handles a make_move / cancel_game request for game key k
IsMove(k) == request'.op = "make_move" /\ request'.key = k
IsCancel(k) == request'.op = "cancel_game" /\ request'.key = k

\* The step handles a make_move for k, a game in progress, with a guess that
\* is one letter not yet in letters_guessed
IsAcceptedMove(k) ==
    /\ IsMove(k)
    /\ k \in DOMAIN games
    /\ ~games[k].game_over
    /\ SingleLetter(request'.guess)
    /\ request'.guess[1] \notin Chars(games[k].letters_guessed)

\* The Score entities put by end_game of game k
ScoresOf(k) == {i \in 1..Len(scores) : scores[i].game = k}

----------------------------------------------------------------------------
(* C1 *)

\* C1: a make_move on a game whose stored game_over is true raises the
\* GameOver conflict whatever the guess is, and the games, the users and the
\* scores are as before.
C1_GameOverRejectsEveryGuess ==
    [][ \A k \in GameKeys :
          (IsMove(k) /\ k \in DOMAIN games /\ games[k].game_over)
          => (response' = GameOver /\ UNCHANGED <<games, users, scores>>) ]_vars

\* A game that is over has just rejected a guess that is not even a letter.
C1_Witness ==
    /\ request.op = "make_move"
    /\ request.guess = <<"1">>
    /\ request.key \in DOMAIN games
    /\ games[request.key].game_over
    /\ response = GameOver

----------------------------------------------------------------------------
(* C2 *)

\* C2: in every state, a stored game with game_over true has its Score
\* entity and its owner has been counted (total_games, and wins if won).
C2_OverImpliesCountedAndScored ==
    \A k \in DOMAIN games :
        games[k].game_over =>
            /\ ScoresOf(k) # {}
            /\ users[games[k].user].total_games >= 1
            /\ \A i \in ScoresOf(k) : scores[i].won => users[games[k].user].wins >= 1

----------------------------------------------------------------------------
(* C3 *)

\* C3: whatever the interleaving of make_move requests, a game has at most
\* one Score entity and no user is counted more often than games were created.
C3_EndGameAtMostOnce ==
    /\ \A k \in GameKeys : Cardinality(ScoresOf(k)) <= 1
    /\ \A u \in DOMAIN users :
           users[u].total_games <= allocated /\ users[u].wins <= allocated

----------------------------------------------------------------------------
(* C4 *)

\* C4: once a stored game has game_over true, every later step leaves the
\* entity stored and unchanged.
C4_OverIsFinal ==
    [][ \A k \in DOMAIN games :
          games[k].game_over => (k \in DOMAIN games' /\ games'[k] = games[k]) ]_vars

----------------------------------------------------------------------------
(* C5 *)

\* C5: an accepted guess appends exactly one element, the guess, to history
\* and exactly one character, the guessed letter, to letters_guessed, on a hit
\* as on a miss.
C5_AcceptedGuessAppendsOnce ==
    [][ \A k \in GameKeys :
          IsAcceptedMove(k)
          => /\ k \in DOMAIN games'
             /\ games'[k].history = Append(games[k].history, request'.guess)
             /\ Len(games'[k].letters_guessed) = Len(games[k].letters_guessed) + 1
             /\ games'[k].letters_guessed
                    = Append(games[k].letters_guessed, request'.guess[1]) ]_vars

\* A game has taken a hit and then a miss, the miss being the last request.
C5_Witness ==
    /\ request.op = "make_move"
    /\ response = Ok("That letter is not in the target word!")
    /\ request.key \in DOMAIN games
    /\ LET g == games[request.key]
       IN  /\ g.correct_letters # <<>>
           /\ Len(g.history) >= 2
           /\ g.history[Len(g.history)] = request.guess

----------------------------------------------------------------------------
(* C6 *)

\* C6: guessed_word is as long as target, shows target[i] at the positions
\* whose letter is in letters_guessed and "_" at the others, and running the
\* reveal loop again leaves it as it is.
C6_GuessedWordIsTheReveal ==
    \A k \in DOMAIN games :
        LET g == games[k]
        IN  /\ Len(g.guessed_word) = Len(g.target)
            /\ \A i \in 1..Len(g.target) :
                   g.guessed_word[i] =
                       IF g.target[i] \in Chars(g.letters_guessed)
                       THEN g.target[i] ELSE "_"
            /\ RevealLoop(g.guessed_word, g.target, g.letters_guessed, 0)
                   = g.guessed_word

\* A game on "biscuits" shows both occurrences of s and hides the rest.
C6_Witness ==
    \E k \in DOMAIN games :
        games[k].guessed_word = <<"_", "_", "s", "_", "_", "_", "_", "s">>

----------------------------------------------------------------------------
(* C7 *)

\* C7: attempts_remaining stays within 0..attempts_allowed, never increases,
\* and goes down, by exactly 1, only in a make_move step that accepts a letter
\* which does not occur in target.
C7_AttemptsRemaining ==
    /\ [](\A k \in DOMAIN games :
            /\ 0 <= games[k].attempts_remaining
            /\ games[k].attempts_remaining <= games[k].attempts_allowed)
    /\ [][ \A k \in DOMAIN games \cap DOMAIN games' :
             /\ games'[k].attempts_remaining <= games[k].attempts_remaining
             /\ games'[k].attempts_remaining # games[k].attempts_remaining
                => /\ games'[k].attempts_remaining = games[k].attempts_remaining - 1
                   /\ IsAcceptedMove(k)
                   /\ request'.guess[1] \notin Chars(games[k].target) ]_vars

\* A game has used up its attempts.
C7_Witness ==
    \E k \in DOMAIN games :
        /\ games[k].attempts_remaining = 0
        /\ Len(games[k].history) = games[k].attempts_allowed + 1

----------------------------------------------------------------------------
(* C8 *)

\* The step ends game k of owner u with the given outcome: game_over is set,
\* one Score with that won flag is appended and the owner is counted.
EndsAs(k, u, won) ==
    /\ games'[k].game_over
    /\ Len(scores') = Len(scores) + 1
    /\ SubSeq(scores', 1, Len(scores)) = scores
    /\ scores'[Len(scores')].game = k
    /\ scores'[Len(scores')].won = won
    /\ users'[u].total_games = users[u].total_games + 1
    /\ users'[u].wins = users[u].wins + (IF won THEN 1 ELSE 0)

\* C8: after an accepted guess the game is WON iff guessed_word equals target
\* after the reveal; otherwise LOST iff attempts_remaining < 1; otherwise it
\* stays in progress and no Score or User changes.  No game is both won and
\* lost.
C8_WinBeforeLoss ==
    /\ [][ \A k \in GameKeys :
             IsAcceptedMove(k)
             => /\ k \in DOMAIN games'
                /\ IF games'[k].guessed_word = games'[k].target
                   THEN /\ EndsAs(k, games[k].user, TRUE)
                        /\ response' = Ok("You guessed the correct word!")
                   ELSE IF games'[k].attempts_remaining < 1
                   THEN /\ EndsAs(k, games[k].user, FALSE)
                        /\ response' = Ok("Game over!")
                   ELSE /\ ~games'[k].game_over
                        /\ response'.status = "OK"
                        /\ UNCHANGED <<scores, users>> ]_vars
    /\ [](\A k \in GameKeys : \A i, j \in ScoresOf(k) : scores[i].won = scores[j].won)

\* A game was won by its last guess, with letters found out of order and a
\* miss on the way.
C8_Witness ==
    /\ response = Ok("You guessed the correct word!")
    /\ request.key \in DOMAIN games
    /\ LET g == games[request.key]
       IN  /\ g.game_over
           /\ g.correct_letters # g.target
           /\ g.attempts_remaining < g.attempts_allowed
           /\ \E i \in ScoresOf(request.key) : scores[i].won

----------------------------------------------------------------------------
(* C9 *)

\* C9: on a game in progress a guess is accepted iff it is one letter that is
\* not in letters_guessed, compared exactly; any other string that is not one
\* letter raises InvalidGuess, a letter already guessed raises DuplicateGuess,
\* and both leave the games, the users and the scores as they were.
C9_GuessValidation ==
    [][ \A k \in GameKeys :
          (IsMove(k) /\ k \in DOMAIN games /\ ~games[k].game_over)
          => IF ~SingleLetter(request'.guess)
             THEN response' \in InvalidGuess /\ UNCHANGED <<games, users, scores>>
             ELSE IF request'.guess[1] \in Chars(games[k].letters_guessed)
             THEN response' = DuplicateGuess /\ UNCHANGED <<games, users, scores>>
             ELSE response'.status = "OK" ]_vars

\* "c" is rejected as a duplicate in a game that took "c" and then "C".
C9_Witness ==
    /\ request.op = "make_move"
    /\ request.guess = <<"c">>
    /\ response = DuplicateGuess
    /\ request.key \in DOMAIN games
    /\ {"c", "C"} \subseteq Chars(games[request.key].letters_guessed)

----------------------------------------------------------------------------
(* C10 *)

\* C10: cancel_game deletes a game in progress and touches no Score and no
\* User; on a game that is over it raises GameOver and on a key without a game
\* NotFound, and then nothing changes.
C10_Cancel ==
    [][ \A k \in GameKeys :
          IsCancel(k)
          => IF k \in DOMAIN games /\ ~games[k].game_over
             THEN /\ games' = Delete(games, k)
                  /\ response' = Ok("Game canceled!")
                  /\ UNCHANGED <<users, scores>>
             ELSE IF k \in DOMAIN games
             THEN response' = GameOver /\ UNCHANGED <<games, users, scores>>
             ELSE response' = NotFound /\ UNCHANGED <<games, users, scores>> ]_vars

\* The only game was cancelled: its key is gone, there is no Score and no
\* user has been counted.
C10_Witness ==
    /\ request.op = "cancel_game"
    /\ response = Ok("Game canceled!")
    /\ allocated = 1
    /\ games = <<>>
    /\ scores = <<>>
    /\ \A u \in DOMAIN users : users[u].total_games = 0

----------------------------------------------------------------------------
(* C11 *)

\* The positions of letters_guessed whose letter does not occur in target
Misses(g) == {i \in 1..Len(g.letters_guessed) : g.letters_guessed[i] \notin Chars(g.target)}

\* C11: a game that is over has one Score, of its owner, whose guesses is
\* attempts_allowed - attempts_remaining, the number of incorrect letters
\* accepted; the Score of a lost game has won false and guesses equal to
\* attempts_allowed, that of a won game has won true.  Every user's
\* total_games is the number of his Scores and wins the number of those won:
\* each termination adds 1 to total_games, and 1 to wins iff won.
C11_ScoreAndCounters ==
    /\ \A k \in DOMAIN games :
           games[k].game_over =>
               /\ Cardinality(ScoresOf(k)) = 1
               /\ \A i \in ScoresOf(k) :
                      LET g == games[k]
                      IN  /\ scores[i].user = g.user
                          /\ scores[i].guesses = g.attempts_allowed - g.attempts_remaining
                          /\ scores[i].guesses = Cardinality(Misses(g))
                          /\ scores[i].won = (g.guessed_word = g.target)
                          /\ ~scores[i].won => scores[i].guesses = g.attempts_allowed
    /\ \A u \in DOMAIN users :
           /\ users[u].total_games
                  = Cardinality({i \in 1..Len(scores) : scores[i].user = u})
           /\ users[u].wins
                  = Cardinality({i \in 1..Len(scores) : scores[i].user = u /\ scores[i].won})

\* A game was lost after a hit: its Score counts the thirteen misses, not the
\* fourteen guesses, and its owner has one game and no win.
C11_Witness ==
    \E i \in 1..Len(scores) :
        /\ ~scores[i].won
        /\ scores[i].guesses = DefaultAttempts
        /\ scores[i].game \in DOMAIN games
        /\ games[scores[i].game].correct_letters # <<>>
        /\ users[scores[i].user].total_games = 1
        /\ users[scores[i].user].wins = 0

----------------------------------------------------------------------------
(* C12 *)

\* C12: every user has 0 <= wins <= total_games; win_percentage, a fraction
\* with a positive denominator, lies between 0 and 1 and is 0 for a user with
\* total_games = 0.
C12_WinsWithinTotal ==
    \A u \in DOMAIN users :
        LET pct == win_percentage(users[u])
        IN  /\ 0 <= users[u].wins
            /\ users[u].wins <= users[u].total_games
            /\ pct[2] > 0
            /\ 0 <= pct[1] /\ pct[1] <= pct[2]
            /\ users[u].total_games = 0 => pct[1] = 0

\* One user has won some of his games and lost others, another has no game
C12_Witness ==
    /\ \E u \in DOMAIN users :
           0 < users[u].wins /\ users[u].wins < users[u].total_games
    /\ \E u \in DOMAIN users : users[u].total_games = 0

----------------------------------------------------------------------------
(* C13 *)

\* C13: whatever the interleaving of create_user requests, no two User
\* entities have the same name: a create_user for a name that exists adds no
\* entity.
C13_UniqueNames ==
    \A j, k \in DOMAIN users : j # k => users[j].name # users[k].name

----------------------------------------------------------------------------
(* C14 *)

\* Position of the user called name in the list fetched by get_user_rankings
FetchedAt(name) ==
    CHOOSE p \in 1..Len(FetchUsersWithGames) : FetchUsersWithGames[p].name = name

----------------------------------------------------------------------------
(* C15 *)

\* C15: get_high_scores returns Score entities in ascending order of guesses,
\* whatever their won flag: all of them, or the first min(number_of_results,
\* number of Scores) of that order when number_of_results is given.
C15_HighScoresAscending ==
    [][ request'.op = "get_high_scores" =>
          /\ response'.status = "OK"
          /\ LET items == response'.items
                 n == Len(scores)
                 limit == request'.number_of_results
                 m == IF limit = Nothing \/ limit[1] > n THEN n ELSE limit[1]
             IN  /\ Len(items) = m
                 /\ \A i \in 1..(m - 1) : items[i].guesses <= items[i + 1].guesses
                 /\ \A i \in 1..m :
                        /\ Cardinality({j \in 1..n :
                               scores[j].guesses < items[i].guesses}) < i
                        /\ Cardinality({j \in 1..n :
                               scores[j].guesses <= items[i].guesses}) >= i
                        /\ \E j \in 1..n :
                               /\ scores[j].guesses = items[i].guesses
                               /\ scores[j].won = items[i].won ]_vars

----------------------------------------------------------------------------
(* C16 *)

\* The message cached for an average of h hundredths
AverageMessage(h) == "The average moves remaining is " \o TwoDecimals(h)

\* C16: a run of the recompute caches the sum of attempts_remaining of the
\* games with game_over false divided by their number (to the nearest
\* hundredth) and, when there is no such game, leaves the cache empty without
\* dividing; get_average_attempts returns what is cached, the empty string
\* for an empty cache.  So after a recompute with no game in progress the
\* average returned is empty, not one of earlier games.
C16_AverageOfOpenGames ==
    [][ /\ request'.op = "cache_average_attempts" =>
              IF OpenGames # {}
              THEN \E h \in 0..(100 * DefaultAttempts) :
                       /\ memcache' = AverageMessage(h)
                       /\ 2 * (100 * SumAttempts(OpenGames) - h * Cardinality(OpenGames))
                              <= Cardinality(OpenGames)
                       /\ 2 * (h * Cardinality(OpenGames) - 100 * SumAttempts(OpenGames))
                              <= Cardinality(OpenGames)
              ELSE memcache' = None
        /\ request'.op = "get_average_attempts" =>
              response' = Ok(IF memcache = None THEN "" ELSE memcache) ]_vars

\* The first part of C16 alone: what a recompute caches when games are in progress
AverageCachedWhenOpen ==
    [][ (request'.op = "cache_average_attempts" /\ OpenGames # {}) =>
            \E h \in 0..(100 * DefaultAttempts) :
                /\ memcache' = AverageMessage(h)
                /\ 2 * (100 * SumAttempts(OpenGames) - h * Cardinality(OpenGames))
                       <= Cardinality(OpenGames)
                /\ 2 * (h * Cardinality(OpenGames) - 100 * SumAttempts(OpenGames))
                       <= Cardinality(OpenGames) ]_vars

----------------------------------------------------------------------------
(* C17 *)

\* C17: a make_move request for a key that has no game entity (never created,
\* or deleted by cancel_game) is answered with the not-found error and changes
\* nothing.
C17_MissingGameIsNotFound ==
    [][ \A k \in GameKeys :
          (IsMove(k) /\ k \notin DOMAIN games)
          => (response'.status = NotFound.status
              /\ UNCHANGED <<games, users, scores>>) ]_vars

----------------------------------------------------------------------------
(* C18 *)

\* C18: a game key that was allocated and has no entity (cancel_game deleted
\* it) has no entity after any later step, and no later step puts a Score of
\* that game or changes a user's counters, also when the step is the write of
\* a make_move request that read the game before it was deleted.
C18_CancelledStaysGone ==
    [][ \A k \in GameKeys :
          (k <= allocated /\ k \notin DOMAIN games)
          => /\ k \notin DOMAIN games'
             /\ ScoresOf(k)' = ScoresOf(k)
             /\ \A u \in DOMAIN users :
                    /\ users'[u].total_games = users[u].total_games
                    /\ users'[u].wins = users[u].wins ]_vars

----------------------------------------------------------------------------
(* C19 *)

\* C19: in every game, history lists the letters of letters_guessed in order,
\* no letter occurs twice, correct_letters is the subsequence of
\* letters_guessed made of the letters that occur in target, and
\* attempts_remaining is attempts_allowed minus the number of letters of
\* letters_guessed that do not occur in target.
C19_GameFieldsAgree ==
    \A k \in DOMAIN games :
        LET g == games[k]
            InTarget(c) == c \in Chars(g.target)
        IN  /\ Len(g.history) = Len(g.letters_guessed)
            /\ \A i \in 1..Len(g.history) : g.history[i] = <<g.letters_guessed[i]>>
            /\ \A i, j \in 1..Len(g.letters_guessed) :
                   i # j => g.letters_guessed[i] # g.letters_guessed[j]
            /\ g.correct_letters = SelectSeq(g.letters_guessed, InTarget)
            /\ g.attempts_remaining = g.attempts_allowed - Cardinality(Misses(g))

\* A game in progress whose letters_guessed alternates miss, hit, miss, hit
C19_Witness ==
    \E k \in DOMAIN games :
        LET g == games[k]
        IN  /\ ~g.game_over
            /\ Len(g.letters_guessed) = 4
            /\ Misses(g) = {1, 3}
            /\ Len(g.correct_letters) = 2

----------------------------------------------------------------------------
(* C20 *)

\* The largest number of guesses a game can accept
MostGuesses(g) == g.attempts_allowed + Cardinality(Chars(g.target)) - 1

\* C20: a game never holds more than attempts_allowed + (number of distinct
\* letters of target) - 1 accepted guesses, and a game that holds that many is
\* over: a game in progress has room for at least its last guess, and each
\* accepted guess uses the room up by one.
C20_BoundedGuesses ==
    \A k \in DOMAIN games :
        /\ Len(games[k].history) <= MostGuesses(games[k])
        /\ Len(games[k].history) = MostGuesses(games[k]) => games[k].game_over

\* A game that took the largest number of guesses and ended
C20_Witness ==
    \E k \in DOMAIN games :
        /\ games[k].game_over
        /\ Len(games[k].history) = MostGuesses(games[k])

====
